---- MODULE Spec2Model ----
(***************************************************************************)
(* TurfRun zone capture and progression engine.                            *)
(*                                                                         *)
(* The engine is a set of PL/pgSQL functions (capture_zone, attack_zone,   *)
(* defend_zone, award_ep, update_mission_progress, update_zone_defense)    *)
(* over the tables users, zones, missions, notifications and activity_log, *)
(* plus the row level security policies that let a client touch the tables *)
(* directly.  Each RPC call runs as one PostgreSQL transaction in READ     *)
(* COMMITTED mode: its writes sit in a private workspace (tx[p].w) until   *)
(* Commit publishes them at once; a raised exception discards them.  Row   *)
(* locks (zlock, ulock) are held from the locking statement to the end of  *)
(* the transaction.  A transaction is cut into steps at the statements     *)
(* that look at shared state: the first locking read, a blocking INSERT,   *)
(* the blocking SELECT ... FOR UPDATE of award_ep, and the commit.         *)
(*                                                                         *)
(* Beside the RPC calls the module has the statements that act on the      *)
(* tables from outside the engine (a client's UPDATE of its users row, the *)
(* owner's DELETE of a zone, the deletion of an account with its foreign   *)
(* key actions, mark_notification_read), and PostgreSQL's deadlock         *)
(* detector.  Three specifications share the variables: Spec, all of the   *)
(* above; EngineSpec, the capture, attack and defend calls alone; and      *)
(* GridSpec, the grid quantizer applied to two points.                     *)
(***************************************************************************)
EXTENDS Integers, Sequences, FiniteSets, TLC

VARIABLES zones, users, missions, notifications, activity,
          zlock, ulock, tx, last, clock, granted, probe

vars == <<zones, users, missions, notifications, activity,
          zlock, ulock, tx, last, clock, granted, probe>>

dbvars == <<zones, users, missions, notifications, activity>>

(***************************************************************************)
(* Bounds of the model.                                                    *)
(***************************************************************************)
\* number of calls (RPC calls and direct table statements) ever started
MaxCalls == 3

\* concurrent database sessions
Procs == {"p1", "p2"}

\* rows of the users table, and one authenticated id without a users row
Users == {"A", "B"}
Ghost == "X"
Callers == Users \cup {Ghost}

NULL == "NULL"
NoZoneId == <<>>

Max(a, b) == IF a >= b THEN a ELSE b
Min(a, b) == IF a <= b THEN a ELSE b

(***************************************************************************)
(* Grid quantizer.  Coordinates are integers in units of 0.00015 degree,   *)
(* a third of the latitudinal cell span.                                   *)
(***************************************************************************)
UnitsPerDegree == 6667
LatLimit == 600000
LonLimit == 1200000
grid_size_lat == 3

\* COS(RADIANS(lat)) in percent, by Bhaskara's rational approximation on
\* whole degrees
CosPct(lat) ==
    LET d == lat \div UnitsPerDegree
    IN  (100 * (32400 - 4 * d * d)) \div (32400 + d * d)

ValidCoordinate(lat, lon) ==
    /\ lat >= -LatLimit /\ lat <= LatLimit
    /\ lon >= -LonLimit /\ lon <= LonLimit

\* FLOOR(lat / grid_size_lat) || '_' || FLOOR(lon / grid_size_lon) with
\* grid_size_lon = grid_size_lat / GREATEST(COS(RADIANS(lat)), 0.01)
generate_grid_id(lat, lon) ==
    <<lat \div grid_size_lat,
      (lon * Max(CosPct(lat), 1)) \div (100 * grid_size_lat)>>

\* generate_zone_geom: the envelope of the cell, snapped with the longitude
\* span of the given latitude.  The longitudes xmin and xmax are kept
\* multiplied by scale, the cosine in percent, which keeps them integers.
generate_zone_geom(lat, lon) ==
    LET scale == Max(CosPct(lat), 1)
        grid_lat == (lat \div grid_size_lat) * grid_size_lat
        k == (lon * scale) \div (100 * grid_size_lat)
    IN  [scale |-> scale,
         xmin |-> k * 100 * grid_size_lat, xmax |-> (k + 1) * 100 * grid_size_lat,
         ymin |-> grid_lat, ymax |-> grid_lat + grid_size_lat]

\* the point lies in the envelope, its lower edges included
InsideEnvelope(geom, lat, lon) ==
    /\ geom.ymin <= lat /\ lat < geom.ymax
    /\ geom.xmin <= lon * geom.scale /\ lon * geom.scale < geom.xmax

\* coordinates a capture may be asked for: points of two cells and a
\* latitude out of range
Points == {<<1, 1>>, <<3, 0>>, <<LatLimit + 1, 0>>}

ZoneIds == {generate_grid_id(pt[1], pt[2]) :
               pt \in {q \in Points : ValidCoordinate(q[1], q[2])}}

(***************************************************************************)
(* Rows.                                                                   *)
(***************************************************************************)
\* a cell without a zones row
NoZone == [exists |-> FALSE, owner |-> NULL, defense |-> 0, status |-> "neutral",
           captured_at |-> 0, last_attack_at |-> 0]

\* users row as the signup route inserts it
NewUser == [exists |-> TRUE, total_ep |-> 0, respect_level |-> 1]

\* an id whose users row was deleted with its account
NoUser == [exists |-> FALSE, total_ep |-> 0, respect_level |-> 1]

\* expires_at of a starter mission: NOW() + INTERVAL '7 days', with the time
\* of the model, in which each call takes one unit, and signup at time 0
mission_lifetime == 7

Mission(u, t, target, reward, expires_at) ==
    [user |-> u, type |-> t, target |-> target, current |-> 0,
     reward |-> reward, status |-> "active", expires_at |-> expires_at]

\* The missions table.  Missions 3, 4 and 5 are rows create_initial_missions
\* gives a new player; the other rows are rows the table admits
\* (target_value > 0, reward_ep >= 0): short targets, two active missions of
\* one type, a win_battles mission, a mission whose reward_ep is 0, a
\* defend_zones mission of one defence, a walk_distance mission, and
\* missions whose expires_at is time 1, which has passed when the second call
\* of a run starts.
MissionRows ==
    <<Mission("A", "capture_zones", 1, 100, mission_lifetime),
      Mission("A", "capture_zones", 2, 50, 1),
      Mission("A", "defend_zones", 3, 30, mission_lifetime),
      Mission("A", "earn_ep", 100, 25, mission_lifetime),
      Mission("B", "capture_zones", 5, 50, mission_lifetime),
      Mission("B", "win_battles", 1, 20, 1),
      Mission("B", "defend_zones", 1, 0, mission_lifetime),
      Mission("A", "defend_zones", 1, 40, 1),
      Mission("B", "walk_distance", 1, 10, mission_lifetime)>>

MissionIds == 1..Len(MissionRows)

Notification(u, t, z, m) ==
    [user |-> u, type |-> t, zone |-> z, mission |-> m, read |-> FALSE]

Activity(u, t, z, ep, rc, m) ==
    [user |-> u, type |-> t, zone |-> z, ep_change |-> ep,
     respect_change |-> rc, mission |-> m]

(***************************************************************************)
(* Progression ledger.  The functions work on the workspace W of the       *)
(* calling transaction: W.user is the users row of W.uid, W.missions the   *)
(* missions table, W.notes and W.acts the rows inserted so far, W.ok turns *)
(* FALSE when an exception is raised.                                      *)
(***************************************************************************)
\* FLOOR(SQRT(x / 100.0)) for x >= 0
FloorSqrtHundredth(x) ==
    CHOOSE k \in 0..100 : 100 * k * k <= x /\ (k = 100 \/ x < 100 * (k + 1) * (k + 1))

calculate_respect_level(total_ep) ==
    Max(1, Min(100, 1 + FloorSqrtHundredth(Max(0, total_ep))))

\* variant of award_ep: the level-up test made with >= instead of >
award_ep_level_up_on_equal(W, ep_amount) ==
    IF ~W.ok THEN W
    ELSE IF ep_amount <= 0 \/ ~W.user_found THEN [W EXCEPT !.ok = FALSE]
    ELSE
      LET v_old_ep    == W.user.total_ep
          v_old_level == W.user.respect_level
          v_new_ep    == v_old_ep + ep_amount
          v_new_level == calculate_respect_level(v_new_ep)
          logged == Append(W.acts,
                      Activity(W.uid, "ep_earned", NoZoneId, ep_amount,
                               v_new_level - v_old_level, 0))
      IN  IF v_new_level < v_old_level
          THEN [W EXCEPT !.ok = FALSE]
          ELSE
            [W EXCEPT
               !.user = [@ EXCEPT !.total_ep = v_new_ep,
                                  !.respect_level = v_new_level],
               !.awarded = @ + ep_amount,
               !.acts = IF v_new_level >= v_old_level
                        THEN Append(logged,
                               Activity(W.uid, "respect_gained", NoZoneId, 0,
                                        v_new_level - v_old_level, 0))
                        ELSE logged,
               !.notes = IF v_new_level >= v_old_level
                         THEN Append(@, Notification(W.uid, "level_up", NoZoneId, 0))
                         ELSE @]

\* the statements of award_ep after the locking read of the users row
award_ep(W, ep_amount) ==
    IF ~W.ok THEN W
    ELSE IF ep_amount <= 0 \/ ~W.user_found THEN [W EXCEPT !.ok = FALSE]
    ELSE
      LET v_old_ep    == W.user.total_ep
          v_old_level == W.user.respect_level
          v_new_ep    == v_old_ep + ep_amount
          v_new_level == calculate_respect_level(v_new_ep)
          logged == Append(W.acts,
                      Activity(W.uid, "ep_earned", NoZoneId, ep_amount,
                               v_new_level - v_old_level, 0))
      IN  IF v_new_level < v_old_level
          THEN [W EXCEPT !.ok = FALSE]   \* validate_user_sensitive_fields
          ELSE
            [W EXCEPT
               !.user = [@ EXCEPT !.total_ep = v_new_ep,
                                  !.respect_level = v_new_level],
               !.awarded = @ + ep_amount,
               !.acts = IF v_new_level > v_old_level
                        THEN Append(logged,
                               Activity(W.uid, "respect_gained", NoZoneId, 0,
                                        v_new_level - v_old_level, 0))
                        ELSE logged,
               !.notes = IF v_new_level > v_old_level
                         THEN Append(@, Notification(W.uid, "level_up", NoZoneId, 0))
                         ELSE @]

\* variant of MissionSelected: the cursor also requires expires_at not to
\* have passed at the time of the latest call
MissionSelected_unexpired(m, p_user_id, p_mission_type) ==
    /\ m.user = p_user_id
    /\ m.type = p_mission_type
    /\ m.status = "active"
    /\ m.expires_at >= clock

\* variant of MissionSelected: the cursor without its mission_type filter
MissionSelected_any_type(m, p_user_id, p_mission_type) ==
    /\ m.user = p_user_id
    /\ m.status = "active"

\* variant of MissionSelected: the cursor without its status = 'active' filter
MissionSelected_any_status(m, p_user_id, p_mission_type) ==
    /\ m.user = p_user_id
    /\ m.type = p_mission_type

\* the WHERE clause of the mission cursor
MissionSelected(m, p_user_id, p_mission_type) ==
    /\ m.user = p_user_id
    /\ m.type = p_mission_type
    /\ m.status = "active"

\* variant of mission_step: a mission that reaches its target is marked
\* completed without its reward being awarded
mission_step_unpaid(W, id, progress_increment) ==
    LET mission_record == W.missions[id]
        bumped == [W EXCEPT !.missions[id].current =
                      Min(mission_record.target,
                          mission_record.current + progress_increment)]
    IN  IF mission_record.current + progress_increment >= mission_record.target
        THEN [bumped EXCEPT !.missions[id].status = "completed",
                            !.completed = @ \cup {id}]
        ELSE bumped

\* the body of the FOR loop for mission id, mission_record being the row
\* the cursor read
mission_step(W, id, progress_increment) ==
    LET mission_record == W.missions[id]
        bumped == [W EXCEPT !.missions[id].current =
                      Min(mission_record.target,
                          mission_record.current + progress_increment)]
    IN  IF mission_record.current + progress_increment >= mission_record.target
        THEN LET done == [bumped EXCEPT !.missions[id].status = "completed",
                                        !.completed = @ \cup {id}]
                 paid == award_ep(done, mission_record.reward)
             IN  IF ~paid.ok THEN paid
                 ELSE [paid EXCEPT
                         !.notes = Append(@, Notification(W.uid, "mission_completed",
                                                          NoZoneId, id)),
                         !.acts = Append(@, Activity(W.uid, "mission_completed",
                                                     NoZoneId, mission_record.reward,
                                                     0, id))]
        ELSE bumped

RECURSIVE mission_loop(_, _, _, _)
mission_loop(W, p_mission_type, progress_increment, id) ==
    IF id > Len(W.missions) \/ ~W.ok THEN W
    ELSE mission_loop(
           IF MissionSelected(W.missions[id], W.uid, p_mission_type)
           THEN mission_step(W, id, progress_increment)
           ELSE W,
           p_mission_type, progress_increment, id + 1)

update_mission_progress(W, p_mission_type, progress_increment) ==
    mission_loop(W, p_mission_type, progress_increment, 1)

\* the users table has a row with this id
user_exists(user_id) == user_id \in Users /\ users[user_id].exists

\* INSERT INTO notifications: user_id is NOT NULL and references users
insert_notification(W, n) ==
    IF ~W.ok THEN W
    ELSE IF ~user_exists(n.user) THEN [W EXCEPT !.ok = FALSE]
    ELSE [W EXCEPT !.notes = Append(@, n)]

\* INSERT INTO activity_log: user_id is NOT NULL and references users
insert_activity(W, a) ==
    IF ~W.ok THEN W
    ELSE IF ~user_exists(a.user) THEN [W EXCEPT !.ok = FALSE]
    ELSE [W EXCEPT !.acts = Append(@, a)]

(***************************************************************************)
(* Zone capture engine: the row each branch writes, and the cascade that   *)
(* follows the write.                                                      *)
(***************************************************************************)
capture_reward == 10
battle_reward == 25
attack_reward == 2
defend_reward == 5
initial_defense == 50
recapture_boost == 5
safe_threshold == 70
max_attack_power == 50
max_defense_boost == 30

\* variant of invalid_attack_power: the lower bound tested with < instead of <=
invalid_attack_power_zero_passes(attack_power) ==
    attack_power < 0 \/ attack_power > max_attack_power

invalid_attack_power(attack_power) ==
    attack_power <= 0 \/ attack_power > max_attack_power

invalid_defense_boost(defense_boost) ==
    defense_boost <= 0 \/ defense_boost > max_defense_boost

\* variant of capture_insert: the owner set, the status left as it was
capture_insert_status_kept(row, user_id, now) ==
    [exists |-> TRUE, owner |-> user_id, defense |-> initial_defense,
     status |-> row.status, captured_at |-> now,
     last_attack_at |-> row.last_attack_at]

\* INSERT ... ON CONFLICT (id) DO UPDATE of capture_zone
capture_insert(row, user_id, now) ==
    IF row.exists
    THEN [row EXCEPT !.owner = user_id, !.defense = initial_defense,
                     !.status = "safe", !.captured_at = now]
    ELSE [exists |-> TRUE, owner |-> user_id, defense |-> initial_defense,
          status |-> "safe", captured_at |-> now, last_attack_at |-> 0]

\* variant of capture_boost: the boost also marks the zone safe
capture_boost_marks_safe(row) ==
    [row EXCEPT !.defense = Min(100, row.defense + recapture_boost),
                !.status = "safe"]

\* the caller already owns the zone
capture_boost(row) ==
    [row EXCEPT !.defense = Min(100, row.defense + recapture_boost)]

\* the zone is owned by another player
capture_initiate(row, now) ==
    [row EXCEPT !.status = "under_attack", !.last_attack_at = now]

attack_new_defense(v_current_defense, attack_power) ==
    Max(0, v_current_defense - attack_power)

\* variant of attack_write: a defense brought to 0 is stored as it is, the
\* zone is not transferred
attack_write_zero_stored(row, attacker_id, attack_power, now) ==
    [row EXCEPT !.defense = attack_new_defense(row.defense, attack_power),
                !.status = "under_attack", !.last_attack_at = now]

attack_write(row, attacker_id, attack_power, now) ==
    LET v_new_defense == attack_new_defense(row.defense, attack_power)
    IN  IF v_new_defense = 0
        THEN [row EXCEPT !.owner = attacker_id, !.defense = initial_defense,
                         !.status = "safe", !.captured_at = now]
        ELSE [row EXCEPT !.defense = v_new_defense, !.status = "under_attack",
                         !.last_attack_at = now]

\* variant of defend_write: the boost added without LEAST(100, ...)
defend_write_unclamped(row, defense_boost) ==
    [row EXCEPT !.defense = row.defense + defense_boost,
                !.status = IF row.defense + defense_boost >= safe_threshold
                           THEN "safe" ELSE row.status]

defend_write(row, defense_boost) ==
    LET v_new_defense == Min(100, row.defense + defense_boost)
    IN  [row EXCEPT !.defense = v_new_defense,
                    !.status = IF v_new_defense >= safe_threshold
                               THEN "safe" ELSE row.status]

\* GREATEST(0, LEAST(100, defense_score + defense_change))
update_zone_defense_write(row, defense_change) ==
    [row EXCEPT !.defense = Max(0, Min(100, row.defense + defense_change))]

\* variant of capture_cascade: the zone_captured row of activity_log left out
capture_cascade_unlogged(W, user_id, zone_id) ==
    LET W1 == award_ep(W, capture_reward)
        W2 == insert_notification(W1, Notification(user_id, "zone_captured", zone_id, 0))
    IN  update_mission_progress(W2, "capture_zones", 1)

capture_cascade(W, user_id, zone_id) ==
    LET W1 == award_ep(W, capture_reward)
        W2 == insert_notification(W1, Notification(user_id, "zone_captured", zone_id, 0))
        W3 == insert_activity(W2, Activity(user_id, "zone_captured", zone_id,
                                           capture_reward, 0, 0))
    IN  update_mission_progress(W3, "capture_zones", 1)

\* variant of initiate_cascade: the zone_under_attack notification goes to
\* the caller instead of the owner
initiate_cascade_caller_told(W, user_id, v_current_owner, zone_id) ==
    LET W1 == insert_notification(W, Notification(user_id, "zone_under_attack",
                                                  zone_id, 0))
    IN  insert_activity(W1, Activity(user_id, "zone_attacked", zone_id, 0, 0, 0))

initiate_cascade(W, user_id, v_current_owner, zone_id) ==
    LET W1 == insert_notification(W, Notification(v_current_owner, "zone_under_attack",
                                                  zone_id, 0))
    IN  insert_activity(W1, Activity(user_id, "zone_attacked", zone_id, 0, 0, 0))

\* variant of battle_cascade: the former owner gets no zone_lost notification
battle_cascade_owner_not_told(W, attacker_id, v_owner_id, zone_id) ==
    LET W1 == award_ep(W, battle_reward)
        W3 == insert_notification(W1, Notification(attacker_id, "zone_captured", zone_id, 0))
        W4 == insert_activity(W3, Activity(attacker_id, "zone_captured", zone_id,
                                           battle_reward, 0, 0))
        W5 == insert_activity(W4, Activity(v_owner_id, "zone_lost", zone_id, 0, 0, 0))
        W6 == update_mission_progress(W5, "capture_zones", 1)
    IN  update_mission_progress(W6, "win_battles", 1)

battle_cascade(W, attacker_id, v_owner_id, zone_id) ==
    LET W1 == award_ep(W, battle_reward)
        W2 == insert_notification(W1, Notification(v_owner_id, "zone_lost", zone_id, 0))
        W3 == insert_notification(W2, Notification(attacker_id, "zone_captured", zone_id, 0))
        W4 == insert_activity(W3, Activity(attacker_id, "zone_captured", zone_id,
                                           battle_reward, 0, 0))
        W5 == insert_activity(W4, Activity(v_owner_id, "zone_lost", zone_id, 0, 0, 0))
        W6 == update_mission_progress(W5, "capture_zones", 1)
    IN  update_mission_progress(W6, "win_battles", 1)

\* variant of damage_cascade: an attack that only damages the zone counts as
\* a won battle for the attacker's missions
damage_cascade_counts_as_battle(W, attacker_id, zone_id) ==
    LET W1 == award_ep(W, attack_reward)
        W2 == insert_activity(W1, Activity(attacker_id, "zone_attacked", zone_id,
                                           attack_reward, 0, 0))
    IN  update_mission_progress(W2, "win_battles", 1)

damage_cascade(W, attacker_id, zone_id) ==
    LET W1 == award_ep(W, attack_reward)
    IN  insert_activity(W1, Activity(attacker_id, "zone_attacked", zone_id,
                                     attack_reward, 0, 0))

\* variant of defend_cascade: the defender's missions are not advanced
defend_cascade_mission_skipped(W, defender_id, zone_id) ==
    LET W1 == award_ep(W, defend_reward)
    IN  insert_activity(W1, Activity(defender_id, "zone_defended", zone_id,
                                     defend_reward, 0, 0))

defend_cascade(W, defender_id, zone_id) ==
    LET W1 == award_ep(W, defend_reward)
        W2 == insert_activity(W1, Activity(defender_id, "zone_defended", zone_id,
                                           defend_reward, 0, 0))
    IN  update_mission_progress(W2, "defend_zones", 1)

(***************************************************************************)
(* Transactions.  The CHECK constraints valid_defense_score and            *)
(* valid_current are not guards of the model: that no statement of the     *)
(* engine ever trips them is what the invariants on defense and on mission *)
(* progress establish.                                                     *)
(***************************************************************************)
EmptyW == [uid |-> NULL, user_found |-> FALSE, ledger |-> FALSE, user |-> NewUser,
           missions |-> <<>>, notes |-> <<>>, acts |-> <<>>, awarded |-> 0,
           completed |-> {}, ok |-> TRUE, zone |-> NoZone, zone_written |-> FALSE]

IdleTx == [pc |-> "idle", op |-> "none", caller |-> NULL, zone |-> NoZoneId,
           arg |-> 0, now |-> 0, owner |-> NULL, branch |-> "none", w |-> EmptyW]

\* what the call that ended last returned
Outcome(op, result, branch) == [op |-> op, result |-> result, branch |-> branch]

\* inputs
AttackPowers == {0, 20, 50}
DefenseBoosts == {0, 30}
DefenseChanges == {-100, 30}
DirectEPStep == 500

\* no envelope computed
NoGeom == [scale |-> 0, xmin |-> 0, xmax |-> 0, ymin |-> 0, ymax |-> 0]

\* the quantizer has not been applied
NoProbe == [p |-> <<0, 0>>, q |-> <<0, 0>>, id_p |-> NoZoneId, geom_p |-> NoGeom,
            id_q |-> NoZoneId]

Init ==
    /\ zones = [z \in ZoneIds |-> NoZone]
    /\ users = [u \in Users |-> NewUser]
    /\ missions = MissionRows
    /\ notifications = <<>>
    /\ activity = <<>>
    /\ zlock = [z \in ZoneIds |-> NULL]
    /\ ulock = [u \in Users |-> NULL]
    /\ tx = [p \in Procs |-> IdleTx]
    /\ last = Outcome("none", "none", "none")
    /\ clock = 0
    /\ granted = [m \in MissionIds |-> 0]
    /\ probe = NoProbe

Running(pc, op, caller, zone_id, arg, now, owner, branch, w) ==
    [pc |-> pc, op |-> op, caller |-> caller, zone |-> zone_id, arg |-> arg,
     now |-> now, owner |-> owner, branch |-> branch, w |-> w]

\* Sessions are interchangeable: a call starts on the first idle session.
MayBegin(p) ==
    /\ tx[p].pc = "idle"
    /\ \A q \in Procs : (q = "p1" /\ p # q) => tx[q].pc # "idle"

\* A call or statement starts: the clock, which gives NOW(), advances, up to
\* the bound on the calls and statements of a run.
Tick == clock < MaxCalls /\ clock' = clock + 1

ReleasedZ(p) == [z \in ZoneIds |-> IF zlock[z] = p THEN NULL ELSE zlock[z]]
ReleasedU(p) == [u \in Users |-> IF ulock[u] = p THEN NULL ELSE ulock[u]]

\* variant of lock_not_available: a plain read that never finds the row locked
lock_never_seen(p, zone_id) == FALSE

\* SELECT ... FOR UPDATE NOWAIT finds the row locked by another transaction
lock_not_available(p, zone_id) ==
    /\ zones[zone_id].exists
    /\ zlock[zone_id] # NULL
    /\ zlock[zone_id] # p

\* a blocking row lock on zones can be taken
zone_lock_free(p, zone_id) == zlock[zone_id] \in {NULL, p}

\* The transaction has inserted a row whose foreign key points at the users
\* row, or has set zones.owner_id to it: the foreign key check has taken a
\* key-share lock on that users row, held until the transaction ends.
references_user(t, user_id) ==
    /\ t.pc # "idle"
    /\ \/ /\ t.w.zone_written /\ t.w.zone.owner = user_id
          /\ zones[t.zone].owner # user_id
       \/ \E i \in 1..Len(t.w.notes) : t.w.notes[i].user = user_id
       \/ \E i \in 1..Len(t.w.acts) : t.w.acts[i].user = user_id

\* variant of user_lock_free: award_ep reads the user row without FOR UPDATE
user_lock_ignored(p, user_id) == TRUE

\* SELECT ... FOR UPDATE of award_ep can take the users row: no other
\* transaction holds it FOR UPDATE or key-shared
user_lock_free(p, user_id) ==
    /\ ulock[user_id] \in {NULL, p}
    /\ \A q \in Procs \ {p} : ~references_user(tx[q], user_id)

\* variant of EndCall: a failing call keeps the zone write it had made
EndCall_keeping_zone_write(p, op, caller, zone_id, result) ==
    /\ tx' = [tx EXCEPT ![p] = IdleTx]
    /\ last' = Outcome(op, result, "none")
    /\ zlock' = ReleasedZ(p)
    /\ ulock' = ReleasedU(p)
    /\ zones' = IF tx[p].w.zone_written
                THEN [zones EXCEPT ![zone_id] = tx[p].w.zone]
                ELSE zones
    /\ UNCHANGED <<users, missions, notifications, activity, granted>>

\* a RAISE EXCEPTION, or a RETURN before anything was written: the call ends
\* and no table changes
EndCall(p, op, caller, zone_id, result) ==
    /\ tx' = [tx EXCEPT ![p] = IdleTx]
    /\ last' = Outcome(op, result, "none")
    /\ zlock' = ReleasedZ(p)
    /\ ulock' = ReleasedU(p)
    /\ UNCHANGED <<dbvars, granted>>

\* capture_zone up to its first wait: validation, the locking read, and for
\* an owned zone the UPDATE and its notification
CaptureZone(p, lat, lon, user_id) ==
    /\ UNCHANGED probe
    /\ MayBegin(p)
    /\ Tick
    /\ LET now == clock + 1
           v_zone_id == generate_grid_id(lat, lon)
       IN  IF ~ValidCoordinate(lat, lon)
           THEN EndCall(p, "capture", user_id, NoZoneId, "InvalidCoordinate")
           ELSE IF ~user_exists(user_id)
           THEN EndCall(p, "capture", user_id, v_zone_id, "UserNotFound")
           ELSE IF lock_not_available(p, v_zone_id)
           THEN EndCall(p, "capture", user_id, v_zone_id, "Locked")
           ELSE
             LET row == zones[v_zone_id]
                 v_current_owner == row.owner
                 W0 == [EmptyW EXCEPT !.uid = user_id, !.user_found = TRUE]
             IN  /\ UNCHANGED <<dbvars, granted, ulock, last>>
                 /\ zlock' = IF row.exists THEN [zlock EXCEPT ![v_zone_id] = p]
                             ELSE zlock
                 /\ tx' = [tx EXCEPT ![p] =
                      IF v_current_owner = NULL
                      THEN Running("insert", "capture", user_id, v_zone_id, 0, now,
                                   NULL, "neutral", W0)
                      ELSE IF v_current_owner = user_id
                      THEN Running("commit", "capture", user_id, v_zone_id, 0, now,
                                   v_current_owner, "boost",
                                   [W0 EXCEPT !.zone = capture_boost(row),
                                              !.zone_written = TRUE])
                      ELSE Running("commit", "capture", user_id, v_zone_id, 0, now,
                                   v_current_owner, "initiate",
                                   initiate_cascade(
                                     [W0 EXCEPT !.zone = capture_initiate(row, now),
                                                !.zone_written = TRUE],
                                     user_id, v_current_owner, v_zone_id))]

\* the INSERT ... ON CONFLICT of capture_zone; it waits for a transaction that
\* holds the row or is inserting the same id
InsertZone(p) ==
    /\ UNCHANGED probe
    /\ tx[p].pc = "insert"
    /\ zone_lock_free(p, tx[p].zone)
    /\ IF ~user_exists(tx[p].caller)
       THEN EndCall(p, tx[p].op, tx[p].caller, tx[p].zone, "Error") \* zones.owner_id references users
       ELSE /\ zlock' = [zlock EXCEPT ![tx[p].zone] = p]
            /\ tx' = [tx EXCEPT ![p].pc = "award",
                                ![p].w.zone = capture_insert(zones[tx[p].zone],
                                                             tx[p].caller, tx[p].now),
                                ![p].w.zone_written = TRUE]
            /\ UNCHANGED <<dbvars, granted, ulock, last>>
    /\ UNCHANGED clock

\* attack_zone up to award_ep
AttackZone(p, zone_id, attacker_id, attack_power) ==
    /\ UNCHANGED probe
    /\ MayBegin(p)
    /\ Tick
    /\ LET now == clock + 1
           row == zones[zone_id]
           v_owner_id == row.owner
           v_new_defense == attack_new_defense(row.defense, attack_power)
       IN  IF invalid_attack_power(attack_power)
           THEN EndCall(p, "attack", attacker_id, zone_id, "InvalidParameter")
           ELSE IF lock_not_available(p, zone_id)
           THEN EndCall(p, "attack", attacker_id, zone_id, "Locked")
           ELSE IF ~row.exists
           THEN EndCall(p, "attack", attacker_id, zone_id, "NotFound")
           ELSE IF v_owner_id = attacker_id
           THEN EndCall(p, "attack", attacker_id, zone_id, "SelfAttack")
           ELSE IF v_new_defense = 0 /\ ~user_exists(attacker_id)
           THEN EndCall(p, "attack", attacker_id, zone_id, "Error") \* zones.owner_id references users
           ELSE
             /\ UNCHANGED <<dbvars, granted, ulock, last>>
             /\ zlock' = [zlock EXCEPT ![zone_id] = p]
             /\ tx' = [tx EXCEPT ![p] =
                  Running("award", "attack", attacker_id, zone_id, attack_power, now,
                          v_owner_id,
                          IF v_new_defense = 0 THEN "battle" ELSE "damage",
                          [EmptyW EXCEPT
                             !.zone = attack_write(row, attacker_id, attack_power, now),
                             !.zone_written = TRUE])]

\* IF v_owner_id != defender_id: a comparison with the NULL owner of an
\* ownerless row yields NULL, and IF takes NULL for false
not_owner(v_owner_id, defender_id) ==
    v_owner_id # NULL /\ v_owner_id # defender_id

\* defend_zone up to award_ep
DefendZone(p, zone_id, defender_id, defense_boost) ==
    /\ UNCHANGED probe
    /\ MayBegin(p)
    /\ Tick
    /\ LET now == clock + 1
           row == zones[zone_id]
           v_owner_id == row.owner
       IN  IF invalid_defense_boost(defense_boost)
           THEN EndCall(p, "defend", defender_id, zone_id, "InvalidParameter")
           ELSE IF lock_not_available(p, zone_id)
           THEN EndCall(p, "defend", defender_id, zone_id, "Locked")
           ELSE IF ~row.exists
           THEN EndCall(p, "defend", defender_id, zone_id, "NotFound")
           ELSE IF not_owner(v_owner_id, defender_id)
           THEN EndCall(p, "defend", defender_id, zone_id, "NotOwner")
           ELSE
             /\ UNCHANGED <<dbvars, granted, ulock, last>>
             /\ zlock' = [zlock EXCEPT ![zone_id] = p]
             /\ tx' = [tx EXCEPT ![p] =
                  Running("award", "defend", defender_id, zone_id, defense_boost, now,
                          v_owner_id, "defend",
                          [EmptyW EXCEPT !.zone = defend_write(row, defense_boost),
                                         !.zone_written = TRUE])]

\* the cascade of the branch the call took, from award_ep on
Cascade(t, W) ==
    CASE t.branch = "neutral" -> capture_cascade(W, t.caller, t.zone)
      [] t.branch = "battle"  -> battle_cascade(W, t.caller, t.owner, t.zone)
      [] t.branch = "damage"  -> damage_cascade(W, t.caller, t.zone)
      [] OTHER                -> defend_cascade(W, t.caller, t.zone)

\* award_ep and what follows it: the SELECT ... FOR UPDATE of the users row
\* waits for the holder of the row; with the row held, the rest of the call
\* runs without waiting
AwardStep(p) ==
    /\ UNCHANGED probe
    /\ tx[p].pc = "award"
    /\ user_exists(tx[p].caller) => user_lock_free(p, tx[p].caller)
    /\ LET t == tx[p]
           found == user_exists(t.caller)
           W0 == [t.w EXCEPT !.uid = t.caller, !.user_found = found,
                             !.ledger = TRUE,
                             !.user = IF found THEN users[t.caller] ELSE NewUser,
                             !.missions = missions]
           W1 == Cascade(t, W0)
       IN  IF W1.ok
           THEN /\ tx' = [tx EXCEPT ![p].pc = "commit", ![p].w = W1]
                /\ ulock' = [ulock EXCEPT ![t.caller] = p]
                /\ UNCHANGED <<dbvars, granted, zlock, last>>
           ELSE EndCall(p, t.op, t.caller, t.zone, "Error")
    /\ UNCHANGED clock

\* session p waits for a lock that session q holds
WaitsFor(p, q) ==
    \/ /\ tx[p].pc = "insert"
       /\ zlock[tx[p].zone] = q
    \/ /\ tx[p].pc = "award"
       /\ user_exists(tx[p].caller)
       /\ ulock[tx[p].caller] = q \/ references_user(tx[q], tx[p].caller)

\* p is in a cycle of waiting sessions
Deadlocked(p) == \E q \in Procs \ {p} : WaitsFor(p, q) /\ WaitsFor(q, p)

\* PostgreSQL's deadlock detector: a session that has waited deadlock_timeout
\* in a cycle gets the error 'deadlock detected', which no handler of the
\* functions catches; its transaction is rolled back
DeadlockDetected(p) ==
    /\ UNCHANGED probe
    /\ Deadlocked(p)
    /\ EndCall(p, tx[p].op, tx[p].caller, tx[p].zone, "Deadlock")
    /\ UNCHANGED clock

\* the transaction commits: its rows become visible and its locks are released
Commit(p) ==
    /\ UNCHANGED probe
    /\ tx[p].pc = "commit"
    /\ LET t == tx[p]
           W == t.w
       IN  /\ zones' = IF W.zone_written THEN [zones EXCEPT ![t.zone] = W.zone]
                       ELSE zones
           /\ users' = IF W.ledger THEN [users EXCEPT ![t.caller] = W.user] ELSE users
           /\ missions' = IF W.ledger
                          THEN [i \in MissionIds |->
                                  IF missions[i].user = t.caller THEN W.missions[i]
                                  ELSE missions[i]]
                          ELSE missions
           /\ notifications' = notifications \o W.notes
           /\ activity' = activity \o W.acts
           /\ granted' = [m \in MissionIds |->
                            IF m \in W.completed THEN granted[m] + 1 ELSE granted[m]]
           /\ tx' = [tx EXCEPT ![p] = IdleTx]
           /\ last' = Outcome(t.op, "ok", t.branch)
    /\ zlock' = ReleasedZ(p)
    /\ ulock' = ReleasedU(p)
    /\ UNCHANGED clock

(***************************************************************************)
(* Statements that run as a transaction of their own.                      *)
(***************************************************************************)
\* RPC update_zone_defense: one UPDATE, which waits for the holder of the row
UpdateZoneDefense(zone_id, defense_change) ==
    /\ UNCHANGED probe
    /\ Tick
    /\ zones[zone_id].exists
    /\ zlock[zone_id] = NULL
    /\ zones' = [zones EXCEPT ![zone_id] =
                    update_zone_defense_write(zones[zone_id], defense_change)]
    /\ UNCHANGED <<users, missions, notifications, activity, zlock, ulock, tx,
                   last, granted>>

\* the policy "Zone owners can abandon their zones": DELETE FROM zones by the
\* owner of a safe zone; activity_log.zone_id is ON DELETE SET NULL
AbandonZone(user_id, zone_id) ==
    /\ UNCHANGED probe
    /\ Tick
    /\ zones[zone_id].exists
    /\ zlock[zone_id] = NULL
    /\ zones[zone_id].owner = user_id
    /\ zones[zone_id].status = "safe"
    /\ zones' = [zones EXCEPT ![zone_id] = NoZone]
    /\ activity' = [i \in 1..Len(activity) |->
                      IF activity[i].zone = zone_id
                      THEN [activity[i] EXCEPT !.zone = NoZoneId]
                      ELSE activity[i]]
    /\ UNCHANGED <<users, missions, notifications, zlock, ulock, tx, last, granted>>

\* RPC mark_notification_read: the UPDATE matches the notification only if it
\* is the caller's and unread
MarkNotificationRead(p_notification_id, p_user_id) ==
    /\ UNCHANGED probe
    /\ Tick
    /\ p_notification_id \in 1..Len(notifications)
    /\ notifications[p_notification_id].user = p_user_id
    /\ notifications[p_notification_id].read = FALSE
    /\ notifications' = [notifications EXCEPT ![p_notification_id].read = TRUE]
    /\ UNCHANGED <<zones, users, missions, activity, zlock, ulock, tx, last, granted>>

\* An account is deleted: users.id is ON DELETE CASCADE from auth.users, the
\* user's missions, notifications and activity_log rows are ON DELETE CASCADE
\* from users, and zones.owner_id is ON DELETE SET NULL.  The statement waits
\* for the locks on the rows it deletes or updates.
DeleteAccount(user_id) ==
    /\ UNCHANGED probe
    /\ Tick
    /\ users[user_id].exists
    /\ ulock[user_id] = NULL
    /\ \A p \in Procs : ~references_user(tx[p], user_id)
    /\ \A z \in ZoneIds : zones[z].owner = user_id => zlock[z] = NULL
    /\ users' = [users EXCEPT ![user_id] = NoUser]
    /\ zones' = [z \in ZoneIds |->
                   IF zones[z].owner = user_id THEN [zones[z] EXCEPT !.owner = NULL]
                   ELSE zones[z]]
    /\ missions' = [i \in MissionIds |->
                      IF missions[i].user = user_id
                      THEN [missions[i] EXCEPT !.status = "deleted", !.current = 0]
                      ELSE missions[i]]
    /\ notifications' = SelectSeq(notifications, LAMBDA n : n.user # user_id)
    /\ activity' = SelectSeq(activity, LAMBDA a : a.user # user_id)
    /\ UNCHANGED <<zlock, ulock, tx, last, granted>>

\* variant of user_update_allowed: the table's CHECK constraints without the
\* trigger validate_user_sensitive_fields
user_update_untriggered(old, new) ==
    /\ new.total_ep >= 0
    /\ new.respect_level >= 1
    /\ new.respect_level <= 100

\* the trigger validate_user_sensitive_fields and the CHECKs of users
user_update_allowed(old, new) ==
    /\ new.total_ep >= old.total_ep
    /\ new.respect_level >= old.respect_level
    /\ new.total_ep >= 0
    /\ new.respect_level >= 1 /\ new.respect_level <= 100

\* the policy "Users can update their own profile": an authenticated client
\* updates its own users row, any column
DirectUserUpdate(user_id, total_ep, respect_level) ==
    /\ UNCHANGED probe
    /\ Tick
    /\ ulock[user_id] = NULL
    /\ users[user_id].exists
    /\ LET new == [users[user_id] EXCEPT !.total_ep = total_ep,
                                         !.respect_level = respect_level]
       IN  /\ new # users[user_id]
           /\ user_update_allowed(users[user_id], new)
           /\ users' = [users EXCEPT ![user_id] = new]
    /\ UNCHANGED <<zones, missions, notifications, activity, zlock, ulock, tx,
                   last, granted>>

Next ==
    \/ \E p \in Procs, pt \in Points, u \in Callers : CaptureZone(p, pt[1], pt[2], u)
    \/ \E p \in Procs, z \in ZoneIds, u \in Callers, a \in AttackPowers :
          AttackZone(p, z, u, a)
    \/ \E p \in Procs, z \in ZoneIds, u \in Callers, b \in DefenseBoosts :
          DefendZone(p, z, u, b)
    \/ \E p \in Procs : InsertZone(p)
    \/ \E p \in Procs : AwardStep(p)
    \/ \E p \in Procs : DeadlockDetected(p)
    \/ \E p \in Procs : Commit(p)
    \/ \E z \in ZoneIds, d \in DefenseChanges : UpdateZoneDefense(z, d)
    \/ \E u \in Users, z \in ZoneIds : AbandonZone(u, z)
    \/ \E u \in Users : DeleteAccount(u)
    \/ \E u \in Users, n \in 1..Len(notifications) : MarkNotificationRead(n, u)
    \/ \E u \in Users, e \in {-DirectEPStep, 0, DirectEPStep}, l \in {-1, 0, 1} :
          DirectUserUpdate(u, users[u].total_ep + e, users[u].respect_level + l)

Spec == Init /\ [][Next]_vars

(***************************************************************************)
(* The grid quantizer on its own: two points are drawn from a window of    *)
(* the map around latitude 1 degree, and the two functions are applied to  *)
(* them.                                                                   *)
(***************************************************************************)
\* half the width of the window, in coordinate units
GridRadius == 3

ProbeLat == UnitsPerDegree
ProbeLon == 100 * grid_size_lat

GridLats == (ProbeLat - GridRadius)..(ProbeLat + GridRadius)
GridLons == (ProbeLon - GridRadius)..(ProbeLon + GridRadius)

GridInit ==
    /\ zones = [z \in ZoneIds |-> NoZone]
    /\ users = [u \in Users |-> NewUser]
    /\ missions = MissionRows
    /\ notifications = <<>>
    /\ activity = <<>>
    /\ zlock = [z \in ZoneIds |-> NULL]
    /\ ulock = [u \in Users |-> NULL]
    /\ tx = [p \in Procs |-> IdleTx]
    /\ last = Outcome("none", "none", "none")
    /\ clock = 0
    /\ granted = [m \in MissionIds |-> 0]
    /\ \E lat1 \in GridLats, lon1 \in GridLons, lat2 \in GridLats, lon2 \in GridLons :
          probe = [p |-> <<lat1, lon1>>, q |-> <<lat2, lon2>>,
                   id_p |-> NoZoneId, geom_p |-> NoGeom, id_q |-> NoZoneId]

\* the zone of the first point is computed: its id and its envelope
QuantizeFirst ==
    /\ probe.id_p = NoZoneId
    /\ ValidCoordinate(probe.p[1], probe.p[2])
    /\ probe' = [probe EXCEPT !.id_p = generate_grid_id(probe.p[1], probe.p[2]),
                              !.geom_p = generate_zone_geom(probe.p[1], probe.p[2])]
    /\ UNCHANGED <<dbvars, zlock, ulock, tx, last, clock, granted>>

\* the id of the second point is computed
QuantizeSecond ==
    /\ probe.id_q = NoZoneId
    /\ ValidCoordinate(probe.q[1], probe.q[2])
    /\ probe' = [probe EXCEPT !.id_q = generate_grid_id(probe.q[1], probe.q[2])]
    /\ UNCHANGED <<dbvars, zlock, ulock, tx, last, clock, granted>>

GridNext == QuantizeFirst \/ QuantizeSecond

GridSpec == GridInit /\ [][GridNext]_vars

(***************************************************************************)
(* The engine as the zone routes of the API drive it: capture_zone,        *)
(* attack_zone and defend_zone calls only, with the steps of their         *)
(* transactions.                                                           *)
(***************************************************************************)
EngineNext ==
    \/ \E p \in Procs, pt \in Points, u \in Callers : CaptureZone(p, pt[1], pt[2], u)
    \/ \E p \in Procs, z \in ZoneIds, u \in Callers, a \in AttackPowers :
          AttackZone(p, z, u, a)
    \/ \E p \in Procs, z \in ZoneIds, u \in Callers, b \in DefenseBoosts :
          DefendZone(p, z, u, b)
    \/ \E p \in Procs : InsertZone(p)
    \/ \E p \in Procs : AwardStep(p)
    \/ \E p \in Procs : DeadlockDetected(p)
    \/ \E p \in Procs : Commit(p)

EngineSpec == Init /\ [][EngineNext]_vars

(***************************************************************************)
(* Properties.                                                             *)
(***************************************************************************)
EngineOps == {"capture", "attack", "defend"}
LedgerBranches == {"neutral", "battle", "damage", "defend"}

\* the step in which the transaction of p commits
Commits(p) == tx[p].pc = "commit" /\ tx'[p].pc = "idle"

\* only a step of this shape can be the first step of a call op of session p
Begins(p, op) ==
    /\ tx[p].pc = "idle"
    /\ clock' = clock + 1
    /\ tx'[p].op = op \/ (tx'[p].pc = "idle" /\ last'.op = op)

\* another session holds the row lock of an existing zone
HeldByOther(p, zone_id) ==
    zones[zone_id].exists /\ \E q \in Procs \ {p} : zlock[zone_id] = q

\* the row the branch of t writes, from the committed row
ZoneAfter(t, row) ==
    CASE t.branch = "neutral"  -> capture_insert(row, t.caller, t.now)
      [] t.branch = "boost"    -> capture_boost(row)
      [] t.branch = "initiate" -> capture_initiate(row, t.now)
      [] t.branch = "defend"   -> defend_write(row, t.arg)
      [] OTHER                 -> attack_write(row, t.caller, t.arg, t.now)

\* the condition under which the code takes the branch of t
BranchHolds(t, row) ==
    CASE t.branch = "neutral"  -> row.owner = NULL
      [] t.branch = "boost"    -> row.exists /\ row.owner = t.caller
      [] t.branch = "initiate" -> row.exists /\ row.owner \notin {NULL, t.caller}
      [] t.branch = "defend"   -> row.exists /\ row.owner = t.caller
      [] t.branch = "battle"   -> /\ row.exists /\ row.owner # t.caller
                                  /\ attack_new_defense(row.defense, t.arg) = 0
      [] OTHER                 -> /\ row.exists /\ row.owner # t.caller
                                  /\ attack_new_defense(row.defense, t.arg) > 0

BaseReward(branch) ==
    CASE branch = "neutral" -> capture_reward
      [] branch = "battle"  -> battle_reward
      [] branch = "damage"  -> attack_reward
      [] branch = "defend"  -> defend_reward
      [] OTHER              -> 0

BranchMissionTypes(branch) ==
    CASE branch = "neutral" -> {"capture_zones"}
      [] branch = "battle"  -> {"capture_zones", "win_battles"}
      [] branch = "defend"  -> {"defend_zones"}
      [] OTHER              -> {}

\* activity_log and notifications rows the branch itself inserts, award_ep's
\* ep_earned row included
BranchActs(branch) ==
    CASE branch = "battle" -> 3 [] branch = "initiate" -> 1
      [] branch = "boost" -> 0 [] OTHER -> 2
BranchNotes(branch) ==
    CASE branch = "battle" -> 2 [] branch \in {"neutral", "initiate"} -> 1
      [] OTHER -> 0

\* the committed missions the call of t advances, and those it completes
Advanced(t) ==
    {m \in MissionIds : /\ missions[m].user = t.caller
                        /\ missions[m].type \in BranchMissionTypes(t.branch)
                        /\ missions[m].status = "active"}
Completing(t) ==
    {m \in Advanced(t) : missions[m].current + 1 >= missions[m].target}

RECURSIVE SumReward(_)
SumReward(S) ==
    IF S = {} THEN 0
    ELSE LET m == CHOOSE x \in S : TRUE
         IN  missions[m].reward + SumReward(S \ {m})

NewRows(old, new) == SubSeq(new, Len(old) + 1, Len(new))
Count(rows, type) == Cardinality({i \in 1..Len(rows) : rows[i].type = type})

lat_out(pt) == pt[1] < -LatLimit \/ pt[1] > LatLimit
lon_out(pt) == pt[2] < -LonLimit \/ pt[2] > LonLimit

\* C1: of two attack_zone calls on one zone, the one that starts while another
\* session holds the row lock returns Locked, and every attack that commits
\* leaves the zone as attack_write makes it from the row committed just before:
\* the committed attacks compose in commit order, none works on a stale row.
C1_AttacksSerialized ==
    [][\A p \in Procs :
         /\ Begins(p, "attack")
              => \A z \in ZoneIds, u \in Callers, a \in AttackPowers :
                   (/\ ~invalid_attack_power(a)
                    /\ HeldByOther(p, z)
                    /\ AttackZone(p, z, u, a))
                   => (tx'[p].pc = "idle" /\ last'.result = "Locked")
         /\ (Commits(p) /\ tx[p].op = "attack")
              => /\ zones[tx[p].zone].exists
                 /\ zones[tx[p].zone].owner # tx[p].caller
                 /\ zones'[tx[p].zone] =
                      attack_write(zones[tx[p].zone], tx[p].caller, tx[p].arg,
                                   tx[p].now)]_vars

\* an attack has just been turned away while another attack holds the zone
C1_Witness ==
    /\ last.op = "attack" /\ last.result = "Locked"
    /\ \E q \in Procs :
          /\ tx[q].op = "attack" /\ tx[q].pc \in {"award", "commit"}
          /\ zlock[tx[q].zone] = q

\* C2: every capture, attack and defend holds the zone from its read to its
\* commit, also where the cell has no row: when the call commits, the committed
\* row still satisfies the condition of the branch the call took, so a capture
\* that takes the reward of an unowned cell commits on a cell nobody owns.
C2_ZoneHeldFromReadToCommit ==
    [][\A p \in Procs :
         Commits(p) => BranchHolds(tx[p], zones[tx[p].zone])]_vars

\* what a committing call must publish: the zone write of its branch and the
\* whole cascade
FullEffect(t) ==
    LET ledger == t.branch \in LedgerBranches
        newActs == NewRows(activity, activity')
        newNotes == NewRows(notifications, notifications')
        levelUps == Count(newActs, "respect_gained")
    IN  /\ zones' = [zones EXCEPT ![t.zone] = ZoneAfter(t, zones[t.zone])]
        /\ users' = IF ledger
                    THEN [users EXCEPT ![t.caller] =
                            LET ep == users[t.caller].total_ep + BaseReward(t.branch)
                                        + SumReward(Completing(t))
                            IN  [exists |-> TRUE, total_ep |-> ep,
                                 respect_level |-> calculate_respect_level(ep)]]
                    ELSE users
        /\ missions' = [m \in MissionIds |->
                          IF m \in Advanced(t)
                          THEN [missions[m] EXCEPT
                                  !.current = Min(missions[m].target,
                                                  missions[m].current + 1),
                                  !.status = IF m \in Completing(t)
                                             THEN "completed" ELSE "active"]
                          ELSE missions[m]]
        /\ SubSeq(activity', 1, Len(activity)) = activity
        /\ SubSeq(notifications', 1, Len(notifications)) = notifications
        /\ Len(newActs) = BranchActs(t.branch) + 2 * Cardinality(Completing(t))
                            + levelUps
        /\ ledger => Count(newActs, "ep_earned") = 1 + Cardinality(Completing(t))
        /\ Len(newNotes) = BranchNotes(t.branch) + Cardinality(Completing(t))
                             + Count(newNotes, "level_up")
        /\ (Count(newNotes, "level_up") > 0)
             = (users'[t.caller].respect_level > users[t.caller].respect_level)

\* C3: a call is all or nothing with its cascade: a step of a running call
\* changes no table unless it is the commit, the commit publishes the zone
\* write with every EP, respect level, mission, notification and activity
\* effect, and a call that fails after its zone write publishes nothing.
C3_AllOrNothing ==
    [][\A p \in Procs :
         (tx[p].pc # "idle" /\ tx'[p] # tx[p])
         => IF tx'[p].pc = "idle" /\ last'.result = "ok"
            THEN FullEffect(tx[p])
            ELSE UNCHANGED dbvars]_vars

\* a defend that wrote the zone and awarded the defend reward, then failed on
\* the zero reward of the mission it completed: nothing of it is left
C3_Witness ==
    /\ last.op = "defend" /\ last.result = "Error"
    /\ users["B"].total_ep = capture_reward
    /\ missions[7].status = "active" /\ missions[7].current = 0
    /\ \E z \in ZoneIds :
          /\ zones[z].owner = "B" /\ zones[z].defense = initial_defense
          /\ zlock[z] = NULL
    /\ \A i \in 1..Len(activity) : activity[i].type # "zone_defended"

C5_NoLostIncrement ==
    [][\A p \in Procs :
         Commits(p)
         => \A u \in Users :
              users'[u].total_ep =
                users[u].total_ep
                  + (IF tx[p].w.ledger /\ u = tx[p].caller
                     THEN tx[p].w.awarded ELSE 0)]_vars

C5_Witness ==
    \E p, q \in Procs :
       /\ p # q
       /\ tx[p].pc = "award" /\ tx[q].pc = "commit"
       /\ tx[p].caller = tx[q].caller
       /\ tx[q].w.ledger /\ tx[q].w.awarded > 0
       /\ ulock[tx[q].caller] = q
       /\ users[tx[q].caller].total_ep > 0

\* C6: no step lowers the total_ep of a user it leaves in the table, and every
\* commit of a call that ran award_ep raises its caller's total_ep.
C6_TotalEPMonotonic ==
    [][/\ \A u \in Users :
            users'[u].exists => users'[u].total_ep >= users[u].total_ep
       /\ \A p \in Procs :
            (Commits(p) /\ tx[p].w.ledger)
            => users'[tx[p].caller].total_ep > users[tx[p].caller].total_ep]_vars

C6_Witness ==
    \E u \in Users :
       /\ users[u].total_ep >= DirectEPStep + capture_reward
       /\ \E i \in 1..Len(activity) :
            activity[i].user = u /\ activity[i].type = "ep_earned"

\* C7: in every state each user's respect_level is the level formula applied
\* to that user's total_ep.
C7_RespectMatchesFormula ==
    \A u \in Users :
       users[u].respect_level = calculate_respect_level(users[u].total_ep)

\* C8: the defense score of every zone, committed or written in a running
\* transaction, lies in 0..100.
C8_DefenseInRange ==
    /\ \A z \in ZoneIds : zones[z].defense >= 0 /\ zones[z].defense <= 100
    /\ \A p \in Procs : tx[p].w.zone.defense >= 0 /\ tx[p].w.zone.defense <= 100

\* both ends are reached by clamping: a boost above 100, a change below 0
C8_Witness ==
    \E z \in ZoneIds :
       /\ zones[z].exists
       /\ zones[z].defense \in {0, 100}
       /\ last.op = "defend" /\ last.result = "ok"

\* C9: a zone has no owner exactly when its status is neutral, in the table
\* and in every row a running transaction has written.
C9_OwnerIffNotNeutral ==
    /\ \A z \in ZoneIds :
         zones[z].exists => ((zones[z].owner = NULL) <=> (zones[z].status = "neutral"))
    /\ \A p \in Procs :
         tx[p].w.zone_written
         => ((tx[p].w.zone.owner = NULL) <=> (tx[p].w.zone.status = "neutral"))

\* C10: a call whose input or target fails a check ends at once with the
\* matching error (InvalidCoordinate, InvalidParameter, NotFound, SelfAttack,
\* Locked), and a call that ends in its first step leaves every table and
\* every lock as it was.
C10_ErrorsLeaveNoTrace ==
    [][\A p \in Procs :
         /\ Begins(p, "capture")
              => \A pt \in Points, u \in Callers :
                   CaptureZone(p, pt[1], pt[2], u)
                   => /\ (lat_out(pt) \/ lon_out(pt))
                           => last'.result = "InvalidCoordinate"
                      /\ (/\ ~(lat_out(pt) \/ lon_out(pt)) /\ user_exists(u)
                          /\ HeldByOther(p, generate_grid_id(pt[1], pt[2])))
                           => last'.result = "Locked"
                      /\ tx'[p].pc = "idle" => UNCHANGED <<dbvars, zlock, ulock>>
         /\ Begins(p, "attack")
              => \A z \in ZoneIds, u \in Callers, a \in AttackPowers :
                   AttackZone(p, z, u, a)
                   => /\ (a < 1 \/ a > max_attack_power)
                           => last'.result = "InvalidParameter"
                      /\ (a >= 1 /\ a <= max_attack_power /\ ~zones[z].exists)
                           => last'.result = "NotFound"
                      /\ (/\ a >= 1 /\ a <= max_attack_power /\ zones[z].exists
                          /\ ~HeldByOther(p, z) /\ zones[z].owner = u)
                           => last'.result = "SelfAttack"
                      /\ tx'[p].pc = "idle" => UNCHANGED <<dbvars, zlock, ulock>>
         /\ Begins(p, "defend")
              => \A z \in ZoneIds, u \in Callers, b \in DefenseBoosts :
                   DefendZone(p, z, u, b)
                   => /\ (b < 1 \/ b > max_defense_boost)
                           => last'.result = "InvalidParameter"
                      /\ (b >= 1 /\ b <= max_defense_boost /\ ~zones[z].exists)
                           => last'.result = "NotFound"
                      /\ (b >= 1 /\ b <= max_defense_boost /\ HeldByOther(p, z))
                           => last'.result = "Locked"
                      /\ tx'[p].pc = "idle" => UNCHANGED <<dbvars, zlock, ulock>>]_vars

\* the owner's attack on the zone has just been refused, the zone as captured
C10_Witness ==
    /\ last.op = "attack" /\ last.result = "SelfAttack"
    /\ \E z \in ZoneIds :
          /\ zones[z].exists /\ zones[z].owner \in Users
          /\ zones[z].defense = initial_defense /\ zlock[z] = NULL
    /\ Len(activity) = 2

\* C11: a defend_zone call made by a user who is not the owner of the zone
\* row, a row without owner included, ends at once with NotOwner and changes
\* no table.
C11_NonOwnerDefendRejected ==
    [][\A p \in Procs :
         Begins(p, "defend")
         => \A z \in ZoneIds, u \in Users, b \in DefenseBoosts :
              (/\ b >= 1 /\ b <= max_defense_boost
               /\ users[u].exists
               /\ zones[z].exists /\ ~HeldByOther(p, z)
               /\ zones[z].owner # u
               /\ DefendZone(p, z, u, b))
              => /\ tx'[p].pc = "idle"
                 /\ last' = Outcome("defend", "NotOwner", "none")
                 /\ UNCHANGED <<dbvars, granted>>]_vars

C13_CaptureAddsExactlyTen ==
    [][\A p \in Procs :
         (Commits(p) /\ tx[p].branch = "neutral")
         => users'[tx[p].caller].total_ep = users[tx[p].caller].total_ep + 10]_vars

\* C13 as amended: the commit of a capture_zone call that claimed an unowned
\* cell raises the caller's total_ep by exactly 10 plus the reward_ep of each
\* of the caller's capture_zones missions that the call completes, and by
\* exactly 10 when it completes none.
C13_CaptureAddsTenAndMissionRewards ==
    [][\A p \in Procs :
         (Commits(p) /\ tx[p].branch = "neutral")
         => LET t == tx[p]
                done == {m \in MissionIds :
                           /\ missions[m].user = t.caller
                           /\ missions[m].type = "capture_zones"
                           /\ missions[m].status = "active"
                           /\ missions'[m].status = "completed"}
            IN  /\ users'[t.caller].total_ep
                     = users[t.caller].total_ep + 10 + SumReward(done)
                /\ done = {m \in MissionIds :
                             /\ missions[m].user = t.caller
                             /\ missions[m].type = "capture_zones"
                             /\ missions[m].status = "active"
                             /\ missions[m].current + 1 >= missions[m].target}]_vars

\* A's first capture has completed A's mission of one capture: 10 EP for the
\* zone and 100 EP for the mission
C13_Witness ==
    /\ last = Outcome("capture", "ok", "neutral")
    /\ users["A"].total_ep = 10 + MissionRows[1].reward
    /\ missions[1].status = "completed" /\ missions[2].current = 1
    /\ \E z \in ZoneIds : zones[z].exists /\ zones[z].owner = "A"

\* C14 as stated: the commit of a capture_zone call that claimed an unowned
\* cell adds exactly one row to activity_log.
C14_CaptureLogsOneEntry ==
    [][\A p \in Procs :
         (Commits(p) /\ tx[p].branch = "neutral")
         => Len(activity') = Len(activity) + 1]_vars

\* C14 as amended: the commit of a capture_zone call that claimed an unowned
\* cell adds exactly one zone_captured row to activity_log, the caller's, for
\* the zone, with ep_change 10; the other rows it adds are the ep_earned row
\* of the 10 EP and, for each mission the call completes, an ep_earned and a
\* mission_completed row, and a respect_gained row for each level-up.
C14_CaptureLogsOneCaptureEntry ==
    [][\A p \in Procs :
         (Commits(p) /\ tx[p].branch = "neutral")
         => LET t == tx[p]
                newActs == NewRows(activity, activity')
                done == {m \in MissionIds : /\ missions[m].status = "active"
                                            /\ missions'[m].status = "completed"}
            IN  /\ SubSeq(activity', 1, Len(activity)) = activity
                /\ Count(newActs, "zone_captured") = 1
                /\ \A i \in 1..Len(newActs) :
                     /\ newActs[i].user = t.caller
                     /\ newActs[i].type = "zone_captured"
                          => newActs[i].zone = t.zone /\ newActs[i].ep_change = 10
                /\ Count(newActs, "ep_earned") = 1 + Cardinality(done)
                /\ newActs[1].type = "ep_earned" /\ newActs[1].ep_change = 10
                /\ Count(newActs, "mission_completed") = Cardinality(done)
                /\ Len(newActs) = 2 + 2 * Cardinality(done)
                                    + Count(newActs, "respect_gained")]_vars

\* B's capture of an empty cell, which completes no mission, has left two
\* rows in the log: the ep_earned row and the zone_captured row
C14_Witness ==
    /\ last = Outcome("capture", "ok", "neutral")
    /\ Len(activity) = 2
    /\ activity[1].type = "ep_earned" /\ activity[1].user = "B"
    /\ activity[2].type = "zone_captured" /\ activity[2].user = "B"
    /\ users["B"].total_ep = 10

BattleBegins(p) ==
    Begins(p, "attack")
    => \A z \in ZoneIds, u \in Users, a \in AttackPowers :
         (/\ a >= 1 /\ a <= max_attack_power
          /\ users[u].exists
          /\ zones[z].exists /\ ~HeldByOther(p, z)
          /\ zones[z].owner \in Users \ {u}
          /\ zones[z].defense - a <= 0
          /\ AttackZone(p, z, u, a))
         => (tx'[p].pc = "award" /\ tx'[p].branch = "battle")

BattleTransfers(p) ==
    LET t == tx[p]
        newNotes == NewRows(notifications, notifications')
        told(type, user) == {i \in 1..Len(newNotes) :
                               newNotes[i].type = type /\ newNotes[i].user = user}
    IN  /\ zones[t.zone].owner \in Users \ {t.caller}
        /\ zones'[t.zone].owner = t.caller
        /\ zones'[t.zone].defense = 50
        /\ zones'[t.zone].status = "safe"
        /\ Count(newNotes, "zone_lost") = 1
        /\ Cardinality(told("zone_lost", zones[t.zone].owner)) = 1
        /\ Count(newNotes, "zone_captured") = 1
        /\ Cardinality(told("zone_captured", t.caller)) = 1
        /\ \A i \in 1..Len(newNotes) :
             newNotes[i].type \in {"zone_lost", "zone_captured"}
             => newNotes[i].zone = t.zone
        /\ \A m \in MissionIds :
             (/\ missions[m].user = t.caller
              /\ missions[m].type \in {"capture_zones", "win_battles"}
              /\ missions[m].status = "active")
             => missions'[m].current = Min(missions[m].target, missions[m].current + 1)

\* C16 as stated: a won battle transfers the zone as described, and raises
\* the attacker's total_ep by 25.
C16_BattleAddsTwentyFive ==
    [][\A p \in Procs :
         /\ BattleBegins(p)
         /\ (Commits(p) /\ tx[p].branch = "battle")
              => /\ BattleTransfers(p)
                 /\ users'[tx[p].caller].total_ep
                      = users[tx[p].caller].total_ep + 25]_vars

\* C16 as amended: a won battle transfers the zone as described, and raises
\* the attacker's total_ep by 25 plus the reward_ep of each of the attacker's
\* capture_zones and win_battles missions that the call completes.
C16_BattleTransfersAndRewards ==
    [][\A p \in Procs :
         /\ BattleBegins(p)
         /\ (Commits(p) /\ tx[p].branch = "battle")
              => /\ BattleTransfers(p)
                 /\ users'[tx[p].caller].total_ep
                      = users[tx[p].caller].total_ep + 25
                        + SumReward({m \in MissionIds :
                                       /\ missions[m].user = tx[p].caller
                                       /\ missions[m].type
                                            \in {"capture_zones", "win_battles"}
                                       /\ missions[m].status = "active"
                                       /\ missions[m].current + 1
                                            >= missions[m].target})]_vars

\* B has taken A's zone with an attack of power 50 on defense 50: B's mission
\* of one won battle is completed, B's capture mission stands at 1 of 5
C16_Witness ==
    /\ last = Outcome("attack", "ok", "battle")
    /\ \E z \in ZoneIds :
          /\ zones[z].owner = "B" /\ zones[z].defense = 50
          /\ zones[z].status = "safe"
          /\ \E i \in 1..Len(notifications) :
                /\ notifications[i].type = "zone_lost"
                /\ notifications[i].user = "A" /\ notifications[i].zone = z
    /\ users["B"].total_ep = 25 + MissionRows[6].reward
    /\ missions[6].status = "completed" /\ missions[5].current = 1

\* C17: the activity log is append-only: no step of a capture, an attack, a
\* defend, the abandoning of a zone or the marking of a notification as read
\* removes a row of activity_log or changes a field of one; such a step only
\* appends rows.  (Steps that delete an account are not among them.)
C17_ActivityAppendOnly ==
    [][(\A u \in Users : users'[u].exists = users[u].exists)
       => /\ Len(activity') >= Len(activity)
          /\ \A i \in 1..Len(activity) : activity'[i] = activity[i]]_vars

\* C18: for every valid point p, every valid point q that lies in the
\* rectangle generate_zone_geom draws for p gets from generate_grid_id the
\* same id as p.
C18_PointsOfACellShareItsId ==
    (/\ probe.id_p # NoZoneId /\ probe.id_q # NoZoneId
     /\ InsideEnvelope(probe.geom_p, probe.q[1], probe.q[2]))
    => probe.id_q = probe.id_p

\* C19: no set of concurrent calls deadlocks: in no reachable state do the
\* calls of two sessions each wait for a lock the other holds, so that a call
\* that holds its zone lock and waits for a users row always waits for a call
\* that can go on.
C19_NoDeadlock ==
    \A p \in Procs : ~Deadlocked(p)

\* the status of the cell: that of its row, or absent without a row
StatusOf(row) == IF row.exists THEN row.status ELSE "absent"

\* the step commits a call of that kind on zone z
CommitsOn(z, op) ==
    \E p \in Procs : Commits(p) /\ tx[p].op = op /\ tx[p].zone = z

\* C20: the status of a zone changes only in these ways: from absent or
\* neutral to safe by a capture; from safe to under_attack by an attack that
\* leaves a defense above 0 or by the capture_zone call of a non-owner; from
\* under_attack to safe by a defend whose resulting defense is at least 70 or
\* by an attack that transfers the zone; from safe to absent by the owner's
\* removal of the zone.  A re-capture by the owner and a defend whose
\* resulting defense is below 70 leave the status as it is.
C20_StatusTransitions ==
    [][\A z \in ZoneIds :
         LET old == StatusOf(zones[z])
             new == StatusOf(zones'[z])
         IN  /\ old # new =>
                  \/ /\ old \in {"absent", "neutral"} /\ new = "safe"
                     /\ CommitsOn(z, "capture")
                  \/ /\ old = "safe" /\ new = "under_attack"
                     /\ \/ /\ CommitsOn(z, "attack")
                           /\ zones'[z].defense > 0
                           /\ zones'[z].owner = zones[z].owner
                        \/ \E p \in Procs :
                              /\ Commits(p) /\ tx[p].op = "capture" /\ tx[p].zone = z
                              /\ tx[p].caller # zones[z].owner
                              /\ zones'[z].owner = zones[z].owner
                  \/ /\ old = "under_attack" /\ new = "safe"
                     /\ \/ CommitsOn(z, "defend") /\ zones'[z].defense >= 70
                        \/ \E p \in Procs :
                              /\ Commits(p) /\ tx[p].op = "attack" /\ tx[p].zone = z
                              /\ zones[z].owner # tx[p].caller
                              /\ zones'[z].owner = tx[p].caller
                  \/ /\ old = "safe" /\ new = "absent"
                     /\ zones[z].owner \in Users
                     /\ AbandonZone(zones[z].owner, z)
             /\ \A p \in Procs :
                  (/\ Commits(p) /\ tx[p].zone = z
                   /\ \/ tx[p].op = "capture" /\ tx[p].caller = zones[z].owner
                      \/ tx[p].op = "defend" /\ zones'[z].defense < 70)
                  => new = old]_vars

\* C21: an attack_zone call by an existing user on an unlocked zone the user
\* does not own, with max(0, defense - power) > 0, takes the damage branch;
\* its commit leaves the zone with the same owner, defense equal to that
\* value, status under_attack and last_attack_at the time of the call, raises
\* the attacker's total_ep by exactly 2, adds no notification for the owner
\* (the only notification it can add is the attacker's own level_up) and
\* changes no mission.
C21_PartialDamage ==
    [][\A p \in Procs :
         /\ Begins(p, "attack")
              => \A z \in ZoneIds, u \in Users, a \in AttackPowers :
                   (/\ a >= 1 /\ a <= max_attack_power
                    /\ users[u].exists
                    /\ zones[z].exists /\ ~HeldByOther(p, z)
                    /\ zones[z].owner # u
                    /\ zones[z].defense - a > 0
                    /\ AttackZone(p, z, u, a))
                   => (tx'[p].pc = "award" /\ tx'[p].branch = "damage")
         /\ (Commits(p) /\ tx[p].branch = "damage")
              => LET t == tx[p]
                     z == t.zone
                     newNotes == NewRows(notifications, notifications')
                 IN  /\ zones[z].owner # t.caller
                     /\ zones[z].defense - t.arg > 0
                     /\ zones'[z].owner = zones[z].owner
                     /\ zones'[z].defense = zones[z].defense - t.arg
                     /\ zones'[z].status = "under_attack"
                     /\ zones'[z].last_attack_at = t.now /\ t.now > 0
                     /\ users'[t.caller].total_ep = users[t.caller].total_ep + 2
                     /\ \A i \in 1..Len(newNotes) :
                          /\ newNotes[i].user # zones[z].owner
                          /\ newNotes[i].user = t.caller
                          /\ newNotes[i].type = "level_up"
                     /\ missions' = missions
                     /\ granted' = granted]_vars

\* B has attacked A's fresh zone with power 20: the zone is still A's, with
\* defense 30 and under attack, B has 2 EP, A was told nothing and B's
\* missions have not moved
C21_Witness ==
    /\ last = Outcome("attack", "ok", "damage")
    /\ \E z \in ZoneIds :
          /\ zones[z].owner = "A" /\ zones[z].defense = 50 - 20
          /\ zones[z].status = "under_attack" /\ zones[z].last_attack_at = 2
    /\ users["B"].total_ep = 2
    /\ \A i \in 1..Len(notifications) :
          notifications[i].type \notin {"zone_under_attack", "zone_lost"}
    /\ missions[5].current = 0 /\ missions[6].current = 0

\* what C22 says of a defence besides the defender's EP: a defend_zone call
\* by the owner of an unlocked zone takes the defend branch; its commit leaves
\* the zone with defense min(100, defense + boost), status safe when that
\* value is at least 70 and the status it had otherwise, and the same owner,
\* and raises each of the defender's active defend_zones missions by 1
DefendBegins(p) ==
    Begins(p, "defend")
    => \A z \in ZoneIds, u \in Users, b \in DefenseBoosts :
         (/\ b >= 1 /\ b <= max_defense_boost
          /\ users[u].exists
          /\ zones[z].exists /\ ~HeldByOther(p, z)
          /\ zones[z].owner = u
          /\ DefendZone(p, z, u, b))
         => (tx'[p].pc = "award" /\ tx'[p].branch = "defend")

DefendBoosts(p) ==
    LET t == tx[p]
        z == t.zone
        boosted == zones[z].defense + t.arg
        v == IF boosted > 100 THEN 100 ELSE boosted
    IN  /\ zones'[z].defense = v
        /\ zones'[z].status = IF v >= 70 THEN "safe" ELSE zones[z].status
        /\ zones'[z].owner = zones[z].owner
        /\ \A m \in MissionIds :
             (/\ missions[m].user = t.caller
              /\ missions[m].type = "defend_zones"
              /\ missions[m].status = "active")
             => missions'[m].current = missions[m].current + 1

C23_CaptureOfEnemyZone ==
    [][\A p \in Procs :
         /\ Begins(p, "capture")
              => \A pt \in Points, u \in Users :
                   LET z == generate_grid_id(pt[1], pt[2])
                   IN  (/\ ValidCoordinate(pt[1], pt[2])
                        /\ users[u].exists
                        /\ zones[z].exists /\ ~HeldByOther(p, z)
                        /\ zones[z].owner \in Users \ {u}
                        /\ CaptureZone(p, pt[1], pt[2], u))
                       => (tx'[p].pc = "commit" /\ tx'[p].branch = "initiate")
         /\ (Commits(p) /\ tx[p].branch = "initiate")
              => LET t == tx[p]
                     z == t.zone
                     newNotes == NewRows(notifications, notifications')
                 IN  /\ zones[z].owner \in Users \ {t.caller}
                     /\ zones' = [zones EXCEPT ![z].status = "under_attack",
                                               ![z].last_attack_at = t.now]
                     /\ t.now > 0
                     /\ SubSeq(notifications', 1, Len(notifications)) = notifications
                     /\ Len(newNotes) = 1
                     /\ newNotes[1].type = "zone_under_attack"
                     /\ newNotes[1].user = zones[z].owner
                     /\ newNotes[1].zone = z
                     /\ UNCHANGED <<users, missions, granted>>]_vars

\* B has tried to capture A's safe zone: the zone is still A's with defense
\* 50, now under attack, A has the notification, B has no EP and B's capture
\* mission has not moved
C23_Witness ==
    /\ last = Outcome("capture", "ok", "initiate")
    /\ \E z \in ZoneIds :
          /\ zones[z].owner = "A" /\ zones[z].defense = 50
          /\ zones[z].status = "under_attack" /\ zones[z].last_attack_at = 2
          /\ \E i \in 1..Len(notifications) :
                /\ notifications[i].type = "zone_under_attack"
                /\ notifications[i].user = "A" /\ notifications[i].zone = z
    /\ users["B"].total_ep = 0
    /\ missions[5].current = 0

\* the step of session p is award_ep with the rest of the call: the call was
\* waiting for the users row and is not waiting any more
RunsLedger(p) ==
    /\ tx[p].pc = "award" /\ tx'[p].pc # "award"
    /\ ~Deadlocked(p)

\* C24: whenever a call reaches update_mission_progress (the caller exists,
\* award_ep accepts the caller's users row, and the zone lost in a battle had
\* an owner to notify), the function goes through: each of the
\* user's active missions of the type, whatever its target and its reward_ep
\* (0 included), has current raised by 1, stopped at target; each one that
\* reaches its target is completed, its reward_ep is added to what the call
\* awards, and a mission_completed notification and a mission_completed
\* activity row are written for it; every other mission is left as it was.
C24_MissionProgress ==
    [][\A p \in Procs :
         (/\ RunsLedger(p)
          /\ user_exists(tx[p].caller)
          /\ tx[p].branch = "battle" => tx[p].owner # NULL
          /\ users[tx[p].caller].respect_level
               <= calculate_respect_level(users[tx[p].caller].total_ep))
         => LET t == tx[p]
                W == tx'[p].w
                sel == Advanced(t)
                done == Completing(t)
            IN  /\ tx'[p].pc = "commit"
                /\ \A m \in MissionIds :
                     IF m \in sel
                     THEN /\ W.missions[m].current
                               = Min(missions[m].target, missions[m].current + 1)
                          /\ W.missions[m].status
                               = IF m \in done THEN "completed" ELSE "active"
                     ELSE W.missions[m] = missions[m]
                /\ W.awarded = BaseReward(t.branch) + SumReward(done)
                /\ \A m \in done :
                     /\ \E i \in 1..Len(W.notes) :
                           /\ W.notes[i].type = "mission_completed"
                           /\ W.notes[i].mission = m
                           /\ W.notes[i].user = t.caller
                     /\ \E i \in 1..Len(W.acts) :
                           /\ W.acts[i].type = "mission_completed"
                           /\ W.acts[i].mission = m
                           /\ W.acts[i].ep_change = missions[m].reward]_vars

\* C25: a call that commits has run award_ep once for its own reward and once
\* for each mission it completed.  Its commit adds exactly one ep_earned row
\* per award_ep call; it adds as many level_up notifications as
\* respect_gained rows, all of them the caller's, and it adds one at all
\* exactly when the level computed from the new total_ep is above the
\* respect_level the users row had before the call; a call that ran award_ep
\* once adds exactly one of each in that case and none otherwise.
C25_AwardLogsAndLevelUps ==
    [][\A p \in Procs :
         (Commits(p) /\ tx[p].w.ledger)
         => LET t == tx[p]
                c == t.caller
                newActs == NewRows(activity, activity')
                newNotes == NewRows(notifications, notifications')
                calls == 1 + Cardinality(Completing(t))
                old_level == users[c].respect_level
                new_level == Max(1, Min(100,
                               1 + FloorSqrtHundredth(Max(0, users'[c].total_ep))))
                ups == Count(newNotes, "level_up")
            IN  /\ Count(newActs, "ep_earned") = calls
                /\ \A i \in 1..Len(newActs) :
                     newActs[i].type \in {"ep_earned", "respect_gained"}
                     => newActs[i].user = c
                /\ \A i \in 1..Len(newNotes) :
                     newNotes[i].type = "level_up" => newNotes[i].user = c
                /\ Count(newActs, "respect_gained") = ups
                /\ (ups > 0) <=> (new_level > old_level)
                /\ calls = 1 => ups = IF new_level > old_level THEN 1 ELSE 0]_vars

\* A's capture ran award_ep twice, for the 10 EP of the zone and for the 100
\* EP of the mission it completed: two ep_earned rows, and one level_up
\* notification with its respect_gained row for the step from level 1 to 2
C25_Witness ==
    /\ last = Outcome("capture", "ok", "neutral")
    /\ users["A"].total_ep = 110 /\ users["A"].respect_level = 2
    /\ Count(activity, "ep_earned") = 2
    /\ Count(activity, "respect_gained") = 1
    /\ Count(notifications, "level_up") = 1
    /\ \E i \in 1..Len(activity) :
          /\ activity[i].type = "ep_earned" /\ activity[i].ep_change = 10
          /\ activity[i].respect_change = 0

\* another session holds the lock of the zone id, be there a committed row
\* or not
LockHeldByOther(p, zone_id) == \E q \in Procs \ {p} : zlock[zone_id] = q

\* the call that p begins in this step is turned away with Locked exactly
\* when told: it must be while another session holds the lock of its zone
\* id, and it must not be while none does
TurnedAwayIf(p, zone_id, valid) ==
    /\ (valid /\ LockHeldByOther(p, zone_id))
         => (tx'[p].pc = "idle" /\ last'.result = "Locked")
    /\ ~LockHeldByOther(p, zone_id)
         => ~(tx'[p].pc = "idle" /\ last'.result = "Locked")

\* C26: a zone operation never waits for a zone lock.  A capture, attack or
\* defend with valid input that starts while another session holds the lock
\* of its zone id ends at once with Locked; one that starts while no other
\* session holds the lock of its zone id does not end with Locked, whatever
\* locks are held on other zone ids; and no call is ever in the state of
\* waiting for a zone lock that another session holds.
C26_ZoneLockNeverWaits ==
    [][\A p \in Procs :
         /\ Begins(p, "capture")
              => \A pt \in Points, u \in Users :
                   (/\ ValidCoordinate(pt[1], pt[2]) /\ users[u].exists
                    /\ CaptureZone(p, pt[1], pt[2], u))
                   => TurnedAwayIf(p, generate_grid_id(pt[1], pt[2]), TRUE)
         /\ Begins(p, "attack")
              => \A z \in ZoneIds, u \in Callers, a \in AttackPowers :
                   AttackZone(p, z, u, a)
                   => TurnedAwayIf(p, z, a >= 1 /\ a <= max_attack_power)
         /\ Begins(p, "defend")
              => \A z \in ZoneIds, u \in Callers, b \in DefenseBoosts :
                   DefendZone(p, z, u, b)
                   => TurnedAwayIf(p, z, b >= 1 /\ b <= max_defense_boost)
         /\ tx'[p].pc = "insert"
              => \A q \in Procs \ {p} : zlock'[tx'[p].zone] # q]_vars

\* C27: after any sequence of capture_zone, attack_zone and defend_zone
\* calls, every zones row, committed or written by a running call, has a
\* defense_score from 1 to 100: no call stores 0.
C27_DefenseNeverZero ==
    /\ \A z \in ZoneIds :
         zones[z].exists => (zones[z].defense >= 1 /\ zones[z].defense <= 100)
    /\ \A p \in Procs :
         tx[p].w.zone_written
         => (tx[p].w.zone.defense >= 1 /\ tx[p].w.zone.defense <= 100)

\* B's attack of power 50 on A's zone of defense 50 gave 0: the zone went to
\* B and its stored defense is 50
C27_Witness ==
    /\ last = Outcome("attack", "ok", "battle")
    /\ \E z \in ZoneIds :
          /\ zones[z].exists /\ zones[z].owner = "B"
          /\ zones[z].defense = 50 /\ zones[z].captured_at = 2
    /\ \E i \in 1..Len(notifications) :
          notifications[i].type = "zone_lost" /\ notifications[i].user = "A"

\* the sum of ep_change over the ep_earned rows of the user among the first
\* n rows of activity_log
RECURSIVE EarnedUpTo(_, _)
EarnedUpTo(user_id, n) ==
    IF n = 0 THEN 0
    ELSE EarnedUpTo(user_id, n - 1)
           + (IF activity[n].user = user_id /\ activity[n].type = "ep_earned"
              THEN activity[n].ep_change ELSE 0)

\* C28: in every state the total_ep of each user in the table equals the sum
\* of ep_change over that user's ep_earned rows of activity_log.
C28_LedgerMatchesLog ==
    \A u \in Users :
       users[u].exists => users[u].total_ep = EarnedUpTo(u, Len(activity))

C30_ExpiryIsIgnored ==
    [][/\ \A m \in MissionIds : missions'[m].status # "expired"
       /\ \A p \in Procs :
            (Commits(p) /\ tx[p].w.ledger)
            => \A m \in MissionIds :
                 (/\ missions[m].user = tx[p].caller
                  /\ missions[m].type \in BranchMissionTypes(tx[p].branch)
                  /\ missions[m].status = "active"
                  /\ missions[m].expires_at < tx[p].now)
                 => /\ missions'[m].current = missions[m].current + 1
                    /\ missions'[m].expires_at = missions[m].expires_at
                    /\ IF missions[m].current + 1 >= missions[m].target
                       THEN /\ missions'[m].status = "completed"
                            /\ granted'[m] = granted[m] + 1
                            /\ users'[tx[p].caller].total_ep
                                 >= users[tx[p].caller].total_ep
                                      + missions[m].reward
                       ELSE missions'[m].status = "active"]_vars

\* A's mission of two captures expired at time 1; A's captures at times 1 and
\* 2 have both counted, and the second, made after the expiry, has completed
\* and paid it
C30_Witness ==
    /\ missions[2].expires_at = 1 /\ clock >= 2
    /\ missions[2].status = "completed" /\ missions[2].current = 2
    /\ granted[2] = 1
    /\ users["A"].total_ep = 2 * capture_reward + MissionRows[1].reward
                               + MissionRows[2].reward
    /\ \A z \in ZoneIds : zones[z].exists /\ zones[z].owner = "A"

====
